---- MODULE Spec2Model ----
(***************************************************************************)
(* OCRClip: tray utility that snips a screen region, runs OCR on it in a   *)
(* worker thread and puts the text on the clipboard.                       *)
(*                                                                         *)
(* Threads of the program:                                                 *)
(*   - the GUI thread (Qt event loop): start_snip, the overlay's mouse and *)
(*     key events, grab_region, the single-shot timer callback             *)
(*     _perform_capture (which calls capture.capture_region), handle_snip, *)
(*     the Windows clipboard poll and _on_ocr_finished;                    *)
(*   - one daemon worker thread per snip running _ocr_and_copy;            *)
(*   - the ReaderWrapper background initialisation thread (_init).         *)
(* capture_region runs inside one GUI callback; its backends are shown as  *)
(* successive steps during which no other GUI handler can run.             *)
(***************************************************************************)
EXTENDS Integers, Sequences, FiniteSets, TLC

\* ------------------------------------------------------------- bounds
\* Number of snips the user starts in one run.
MaxSnips == 1
\* Largest side, in device-independent pixels, of a selection rectangle.
MaxDim == 1
\* Largest number of text lines the OCR reader returns for one image.
MaxLines == 2

\* ------------------------------------------------------------- values
Snips == 1..MaxSnips
Platforms == {"linux", "darwin", "win32"}
\* Exception classes a capture backend raises (all derive from Exception).
ExcTypes == {"RuntimeError", "CalledProcessError", "OSError"}
\* devicePixelRatio values of the screen under the selection.
Ratios == {1, 2}
\* A text is a sequence of tokens: a recognised line of the image, or the
\* token NL standing for the newline character. The program never looks
\* into a line, so the i-th line of an image is the token Line(i).
Line(i) == "line" \o ToString(i)
NL == "NL"

\* Byte strings, by what PIL makes of them: a well-formed PNG file; bytes
\* with a PNG file embedded after a non-empty prefix; bytes holding no image
\* file at all, of length n (n = 0 is the empty byte string).
Png == [k |-> "png"]
PngAt == [k |-> "pngAt"]
Junk(n) == [k |-> "junk", n |-> n]
NoneVal == [k |-> "None"]
\* No emission on SnipOverlay.snipped.
Nothing == [k |-> "nothing"]

\* Lengths of raw pixel buffers for a w x h region.
RawRgbLen(w, h) == w * h * 3
RawRgbaLen(w, h) == w * h * 4

\* What an external capture tool may leave in its output file for a w x h
\* region once it exited with status 0: a PNG, nothing, or raw pixels.
FileContents(w, h) ==
    {Png, Junk(0), Junk(RawRgbLen(w, h)), Junk(RawRgbaLen(w, h))}

\* A capture payload as _perform_capture sees it: its Python type t, the
\* bytes b its conversion yields, and whether that conversion works (ok:
\* save() returned True, data()/tobytes()/bytes() did not raise).
Payload(t, b, ok) == [t |-> t, b |-> b, ok |-> ok]
PayloadTypes ==
    {"bytes", "bytearray", "memoryview", "PIL.Image", "QImage", "QPixmap",
     "has_data", "has_tobytes", "other"}
\* A bytes object, which is what every backend of capture.py returns.
BytesObj(b) == Payload("bytes", b, TRUE)

\* The emission of a GUI callback on SnipOverlay.snipped: the value v
\* (Nothing when the callback emitted nothing), and for an emission of
\* _perform_capture the snip, the payload png it had and its s_w, s_h.
Emission(v, id, png, w, h) == [v |-> v, id |-> id, png |-> png, w |-> w, h |-> h]
NotEmitted == Emission(Nothing, 0, NoneVal, 0, 0)

\* Messages the worker emits instead of recognised text.
MsgConversionError == <<"(snip conversion error)">>
MsgNotInstalled == <<"(easyocr not installed)">>
MsgInitializing == <<"(ocr initializing - try again shortly)">>
MsgOcrFailed == <<"(ocr failed to run)">>
MsgOcrError == <<"(ocr error)">>

VARIABLES
    preflight,   \* the run of scripts/preflight.py: [pc, checks, code]
    platform,    \* sys.platform
    pixelRatio,  \* devicePixelRatio of the screen
    hasEasyocr,  \* the easyocr module was importable (easyocr is not None)
    reader,      \* ReaderWrapper: [pc, real, failed, event]
    nSnips,      \* number of overlays created so far (start_snip calls)
    overlay,     \* the current SnipOverlay: [st, begin, end, hidden]
    snip,        \* per snip: [st, w, h]: progress and scaled selection
    cap,         \* the capture_region call in progress in the GUI thread
    emitted,     \* what the GUI callback that ran last emitted on SnipOverlay.snipped
    poll,        \* per snip: the Windows clipboard poll timer is running
    worker,      \* per snip: the _ocr_and_copy thread: [pc, payload, text, lines,
                 \* out, called, rpc, tried]; tried lists the decoders invoked
                 \* on the payload, out is the outcome of reader.readtext,
                 \* called whether the EasyOCR reader was invoked, rpc where the
                 \* initialisation thread was at the time of the call
    guiQueue,    \* ocr_finished emissions queued for the GUI thread
    clipboard,   \* the application clipboard: [kind, text]
    writes,      \* per snip: number of clipboard writes made for it
    notify       \* outcome of the tray notification of the GUI callback that ran last

vars ==
    <<preflight, platform, pixelRatio, hasEasyocr, reader, nSnips, overlay, snip, cap, emitted, poll,
      worker, guiQueue, clipboard, writes, notify>>

\* ---------------------------------------------------- scripts/preflight.py
\* The nine entries of the checks dictionary of main().
CheckNames ==
    {"pyside6", "mss", "pillow", "easyocr", "pynput",
     "grim", "maim", "screencapture", "import"}

\* The script has not been run; code is the exit status once pc = "exited".
PreflightNotRun ==
    [pc |-> "none", checks |-> [n \in CheckNames |-> FALSE], code |-> -1]

\* capture_ok of main(): mss or one of the CLI tools is available.
CaptureOk(checks) ==
    \/ checks["mss"]
    \/ checks["grim"]
    \/ checks["maim"]
    \/ checks["screencapture"]
    \/ checks["import"]

\* An exit status that looks at the capture backends only.
ExitCodeCaptureOnly(checks) == IF CaptureOk(checks) THEN 0 ELSE 2

\* return 0 if ok else 2, with ok = checks["pyside6"] and capture_ok.
ExitCode(checks) == IF checks["pyside6"] /\ CaptureOk(checks) THEN 0 ELSE 2

\* main() of the script, run to its exit: the nine checks are made (each
\* import or which() succeeds or not), printed, and the status is returned
\* to raise SystemExit.
preflight_main ==
    /\ preflight.pc = "start"
    /\ \E c \in [CheckNames -> BOOLEAN] :
         preflight' = [pc |-> "exited", checks |-> c, code |-> ExitCode(c)]
    /\ UNCHANGED <<platform, pixelRatio, hasEasyocr, reader, nSnips, overlay, snip,
                   cap, emitted, poll, worker, guiQueue, clipboard, writes, notify>>

\* ------------------------------------------------- capture.capture_region
\* The capture_region call of the GUI thread. pc is the place in the
\* function ("idle": no call; a backend's name: about to try that backend;
\* "fail": every backend failed; "returned", "raised": the call is over and
\* the caller has not yet used its outcome; "propagated": a backend's
\* exception left the function). attempts lists the backends invoked so far
\* with their outcome; nonRuntime tells that an exception swallowed so far
\* was not a RuntimeError. timer tells, until the first backend has been
\* invoked, how _perform_capture, which makes the call, was started: "set"
\* from the single-shot timer, "failed" at once because the timer could not
\* be set.
CapIdle ==
    [pc |-> "idle", id |-> 0, w |-> 0, h |-> 0, hasMss |-> FALSE,
     attempts |-> <<>>, nonRuntime |-> FALSE, result |-> NoneVal, exc |-> "",
     timer |-> ""]

GuiIdle == cap.pc = "idle"

\* `except Exception` around each backend: every exception class a backend
\* raises derives from Exception and is caught.
AbsorbedRuntimeErrorOnly(exc) == exc = "RuntimeError"
Absorbed(exc) == exc \in ExcTypes

\* The statement that follows each backend's try block.
AfterMss == "qt"
AfterQtAlwaysMacos == "macos"
AfterQt == IF platform = "darwin" THEN "macos" ELSE "grim"
AfterMacos == "grim"
AfterGrim == "maim"
AfterMaim == "import"
AfterImport == "fail"

\* A backend returned v: capture_region returns it at once.
Succeed(b, v) ==
    cap' = [cap EXCEPT !.pc = "returned",
                       !.attempts = Append(@, [b |-> b, ok |-> TRUE, v |-> v]),
                       !.result = v, !.timer = ""]

\* A backend raised exc: the except clause records it and control goes on at
\* next; an exception the clause does not catch leaves capture_region.
Fail(b, exc, next) ==
    IF Absorbed(exc)
    THEN cap' = [cap EXCEPT !.pc = next,
                            !.attempts = Append(@, [b |-> b, ok |-> FALSE, v |-> NoneVal]),
                            !.nonRuntime = @ \/ exc # "RuntimeError", !.timer = ""]
    ELSE cap' = [cap EXCEPT !.pc = "propagated",
                            !.attempts = Append(@, [b |-> b, ok |-> FALSE, v |-> NoneVal]),
                            !.exc = exc, !.timer = ""]

\* A CLI backend (_macos_capture, _grim_capture, _maim_capture,
\* _import_capture): RuntimeError when shutil.which finds no tool, OSError
\* when the temporary file cannot be made or read, CalledProcessError when
\* the tool exits non-zero; otherwise the content of the output file.
CliBackend(b, next) ==
    \/ \E v \in FileContents(cap.w, cap.h) : Succeed(b, BytesObj(v))
    \/ \E exc \in ExcTypes : Fail(b, exc, next)

CapUnchanged ==
    UNCHANGED <<preflight, platform, pixelRatio, hasEasyocr, reader, nSnips, overlay, snip, emitted,
                poll, worker, guiQueue, clipboard, writes, notify>>

\* 1) mss, only when _HAS_MSS: a PNG encoded by PIL, or an exception of mss
\* or PIL.
try_mss ==
    /\ cap.pc = "mss"
    /\ IF cap.hasMss
       THEN \/ Succeed("mss", BytesObj(Png))
            \/ \E exc \in ExcTypes : Fail("mss", exc, AfterMss)
       ELSE cap' = [cap EXCEPT !.pc = AfterMss]
    /\ CapUnchanged

\* 2) Qt grabWindow. The result of pix.save is not looked at: when saving
\* fails (a null pixmap) the buffer is empty and b"" is returned. Every
\* exception is re-raised as RuntimeError("qt_capture_failed: ...").
try_qt ==
    /\ cap.pc = "qt"
    /\ \/ Succeed("qt", BytesObj(Png))
       \/ Succeed("qt", BytesObj(Junk(0)))
       \/ Fail("qt", "RuntimeError", AfterQt)
    /\ CapUnchanged

\* 3) macOS screencapture, reached only when sys.platform == "darwin".
try_macos ==
    /\ cap.pc = "macos"
    /\ CliBackend("macos", AfterMacos)
    /\ CapUnchanged

\* 4) grim
try_grim ==
    /\ cap.pc = "grim"
    /\ CliBackend("grim", AfterGrim)
    /\ CapUnchanged

\* 5) maim
try_maim ==
    /\ cap.pc = "maim"
    /\ CliBackend("maim", AfterMaim)
    /\ CapUnchanged

\* 6) ImageMagick import
try_import ==
    /\ cap.pc = "import"
    /\ CliBackend("import", AfterImport)
    /\ CapUnchanged

\* raise RuntimeError("no_suitable_screencapture_backend: " + errors)
raise_no_backend ==
    /\ cap.pc = "fail"
    /\ cap' = [cap EXCEPT !.pc = "raised", !.exc = "RuntimeError"]
    /\ CapUnchanged

capture_region ==
    \/ try_mss
    \/ try_qt
    \/ try_macos
    \/ try_grim
    \/ try_maim
    \/ try_import
    \/ raise_no_backend

\* ------------------------------------------- payload normalisation (overlay)
\* Values that travel on SnipOverlay.snipped and into _ocr_and_copy.
Tuple(b, w, h) == [k |-> "tuple", b |-> b, w |-> w, h |-> h]
Bytes(b) == [k |-> "bytes", b |-> b]

\* Image.open(io.BytesIO(b)) followed by load(): succeeds exactly on bytes
\* that are an image file from their first byte on.
Decodable(b) == b.k = "png"

\* "Coerce commonly-returned types into PNG bytes": the bytes, or NoneVal.
\* A PIL image whose save() raised falls through to the second block, where
\* it has no data() but has tobytes(): its raw pixels (p.b) are taken.
CoerceToBytes(p) ==
    CASE p.t \in {"bytes", "bytearray", "memoryview"} -> p.b
      [] p.t = "PIL.Image" -> IF p.ok THEN Png ELSE p.b
      [] p.t \in {"QImage", "QPixmap"} -> IF p.ok THEN Png ELSE NoneVal
      [] OTHER -> IF p.ok THEN p.b ELSE NoneVal

\* "Validate PNG bytes by attempting to open and load them now".
ValidateAlwaysPasses(b) == TRUE
Validate(b) == Decodable(b)

\* What _perform_capture emits for the payload png of a w x h capture.
EmitBareBytes(png, w, h) ==
    LET png_bytes == CoerceToBytes(png)
    IN  IF png_bytes = NoneVal THEN NoneVal
        ELSE IF ~Validate(png_bytes) THEN NoneVal
        ELSE Bytes(png_bytes)
Normalize(png, w, h) ==
    LET png_bytes == CoerceToBytes(png)
    IN  IF png_bytes = NoneVal THEN NoneVal
        ELSE IF ~Validate(png_bytes) THEN NoneVal
        ELSE Tuple(png_bytes, w, h)

\* ------------------------------------------------ _ocr_and_copy: conversion
\* Further byte strings a worker may be handed: an image file cut short
\* (Image.open accepts the header, load() raises), and bytes with a PNG
\* signature at an offset > 0 whose tail does not decode; n is the length.
Truncated(n) == [k |-> "truncated", n |-> n]
PngAtBad(n) == [k |-> "pngAtBad", n |-> n]

\* Image.open(...) returns an object (pil_image_obj is assigned) although
\* load() may still raise.
Opens(b) == b.k \in {"png", "truncated"}

\* idx = b.find(b"\x89PNG"); if idx > 0.
SignatureAtOffset(b) == b.k \in {"pngAt", "pngAtBad"}

\* len(b) of a byte string that is not a complete image file.
HasLen(b, n) == b.k \in {"junk", "truncated", "pngAtBad"} /\ b.n = n

\* pil_image_obj after an open-and-load attempt on bytes b: the loaded
\* image, an opened object whose load() raised, or what it was before.
OpenAndLoad(b, before) ==
    IF b.k = "png" THEN "image" ELSE IF Opens(b) THEN "stale" ELSE before

\* A decoding that looks at the raw pixel lengths before anything else.
DecodeStepsRawFirst(b, w, h) ==
    IF HasLen(b, w * h * 3) THEN [tried |-> <<"rgb">>, obj |-> "image"]
    ELSE IF HasLen(b, w * h * 4) THEN [tried |-> <<"rgba">>, obj |-> "image"]
    ELSE [tried |-> <<"memory">>, obj |-> OpenAndLoad(b, "none")]

\* The tuple branch of _ocr_and_copy, step by step: tried lists the decoders
\* invoked, obj is pil_image_obj at the end ("none" for None). The
\* temporary-file decode runs in the except of the in-memory decode, the
\* signature decode in the except of the temporary-file decode, the raw
\* decoders only while pil_image_obj is None, RGBA only when the length is
\* not the RGB one.
DecodeSteps(b, w, h) ==
    LET mem == [tried |-> <<"memory">>, obj |-> OpenAndLoad(b, "none")]
        tmp == IF mem.obj = "image" THEN mem
               ELSE [tried |-> Append(mem.tried, "tempfile"),
                     obj |-> OpenAndLoad(b, mem.obj)]
        sig == IF tmp.obj = "image" \/ ~SignatureAtOffset(b) THEN tmp
               ELSE [tried |-> Append(tmp.tried, "signature"),
                     obj |-> IF b.k = "pngAt" THEN "image" ELSE tmp.obj]
    IN  IF sig.obj # "none" THEN sig
        ELSE IF HasLen(b, RawRgbLen(w, h))
        THEN [tried |-> Append(sig.tried, "rgb"), obj |-> "image"]
        ELSE IF HasLen(b, RawRgbaLen(w, h))
        THEN [tried |-> Append(sig.tried, "rgba"), obj |-> "image"]
        ELSE sig

\* The decoders _ocr_and_copy invokes for a payload: the chain above for a
\* tuple, the in-memory decode alone for bare bytes, none for None.
Tried(v) ==
    CASE v.k = "tuple" -> DecodeSteps(v.b, v.w, v.h).tried
      [] v.k = "bytes" -> <<"memory">>
      [] OTHER -> <<>>

\* The decoder that yields the image of a (bytes, w, h) payload, tried in the
\* code's order; "none" when no decoder yields an image. The temporary-file
\* decode reads back the same bytes and so fails whenever the in-memory
\* decode did.
DecodeTuple(b, w, h) ==
    LET r == DecodeSteps(b, w, h)
    IN  IF r.obj = "image" THEN r.tried[Len(r.tried)] ELSE "none"

\* Whether the first part of _ocr_and_copy obtains an image array from the
\* payload; when it does not, "(snip conversion error)" is emitted.
Converts(v) ==
    CASE v.k = "None" -> FALSE
      [] v.k = "tuple" -> DecodeTuple(v.b, v.w, v.h) # "none"
      [] v.k = "bytes" -> Decodable(v.b)
      [] OTHER -> FALSE

\* "".join(...): the recognised lines run together with no separator.
JoinConcatenated(lines) == lines

\* "\n".join([r[1] for r in results]) over the recognised lines.
RECURSIVE Join(_)
Join(lines) ==
    IF lines = <<>> THEN <<>>
    ELSE IF Len(lines) = 1 THEN <<lines[1]>>
    ELSE <<lines[1], NL>> \o Join(Tail(lines))

\* The results EasyOCR may return: the first n lines of the image, in
\* reading order, n up to MaxLines.
OcrResults == {[i \in 1..n |-> Line(i)] : n \in 0..MaxLines}

\* ------------------------------------------------------------ ReaderWrapper
ReaderUnbuilt == [pc |-> "unbuilt", real |-> FALSE, failed |-> FALSE, event |-> FALSE]

\* build_reader: None when easyocr is missing; else a ReaderWrapper whose
\* constructor starts the _init thread and returns.
build_reader ==
    /\ reader.pc = "unbuilt"
    /\ reader' = [reader EXCEPT !.pc = IF hasEasyocr THEN "start" ELSE "absent"]
    /\ UNCHANGED <<preflight, platform, pixelRatio, hasEasyocr, nSnips, overlay, snip, cap,
                   emitted, poll, worker, guiQueue, clipboard, writes, notify>>

\* _init, first part: easyocr.Reader(...) either yields the reader or raises.
reader_init ==
    /\ reader.pc = "start"
    /\ \E ok \in BOOLEAN :
         reader' = [reader EXCEPT !.pc = "built", !.real = ok, !.failed = ~ok]
    /\ UNCHANGED <<preflight, platform, pixelRatio, hasEasyocr, nSnips, overlay, snip, cap,
                   emitted, poll, worker, guiQueue, clipboard, writes, notify>>

\* _init, the finally clause: self._event.set(); the thread ends.
reader_init_done ==
    /\ reader.pc = "built"
    /\ reader' = [reader EXCEPT !.pc = "done", !.event = TRUE]
    /\ UNCHANGED <<preflight, platform, pixelRatio, hasEasyocr, nSnips, overlay, snip, cap,
                   emitted, poll, worker, guiQueue, clipboard, writes, notify>>

\* ReaderWrapper.readtext: the outcome of one call, given what the real
\* reader would do ("lines", "RuntimeError" or "Exception") if it is called.
\* called: whether self._real.readtext was invoked.
ReadtextIgnoringEvent(real_outcome) ==
    IF reader.failed \/ ~reader.real
    THEN [out |-> "ocr_failed", called |-> FALSE]
    ELSE [out |-> real_outcome, called |-> TRUE]
Readtext(real_outcome) ==
    IF ~reader.event
    THEN [out |-> "ocr_not_ready", called |-> FALSE]
    ELSE IF reader.failed \/ ~reader.real
    THEN [out |-> "ocr_failed", called |-> FALSE]
    ELSE [out |-> real_outcome, called |-> TRUE]

\* ------------------------------------------------------------- the worker
WorkerNone ==
    [pc |-> "none", payload |-> NoneVal, text |-> <<>>, lines |-> <<>>,
     out |-> "", called |-> FALSE, rpc |-> "", tried |-> <<>>]

\* threading.Thread(target=self._ocr_and_copy, args=(v,)).start()
StartWorker(id, v) ==
    worker' = [worker EXCEPT ![id] = [WorkerNone EXCEPT !.pc = "convert", !.payload = v]]

\* The text _ocr_and_copy emits for an outcome of reader.readtext.
TextOf(r, lines) ==
    CASE r.out = "lines" -> Join(lines)
      [] r.out = "ocr_not_ready" -> MsgInitializing
      [] r.out \in {"ocr_failed", "RuntimeError"} -> MsgOcrFailed
      [] OTHER -> MsgOcrError

WorkerUnchanged ==
    UNCHANGED <<preflight, platform, pixelRatio, hasEasyocr, reader, nSnips, overlay, snip,
                cap, emitted, poll, clipboard, writes, notify>>

\* _ocr_and_copy, first part: the payload is turned into an image array, or
\* "(snip conversion error)" is emitted and the thread ends.
ocr_and_copy_convert(id) ==
    /\ worker[id].pc = "convert"
    /\ IF Converts(worker[id].payload)
       THEN /\ worker' = [worker EXCEPT ![id].pc = "ocr", ![id].payload = NoneVal,
                                        ![id].tried = Tried(worker[id].payload)]
            /\ UNCHANGED guiQueue
       ELSE /\ worker' = [worker EXCEPT ![id] =
                            [WorkerNone EXCEPT !.pc = "done",
                                               !.tried = Tried(worker[id].payload)]]
            /\ guiQueue' = Append(guiQueue, [id |-> id, text |-> MsgConversionError])
    /\ WorkerUnchanged

\* _ocr_and_copy, second part: the reader is asked for the text.
ocr_and_copy_read(id) ==
    /\ worker[id].pc = "ocr"
    /\ reader.pc # "unbuilt"
    /\ IF reader.pc = "absent"
       THEN worker' = [worker EXCEPT ![id].pc = "emit", ![id].text = MsgNotInstalled,
                                     ![id].out = "no_reader"]
       ELSE \E real_outcome \in {"lines", "RuntimeError", "Exception"} :
            \E lines \in OcrResults :
              LET r == Readtext(real_outcome)
              IN  /\ (r.out # "lines") => lines = <<>>
                  /\ worker' = [worker EXCEPT ![id].pc = "emit",
                                              ![id].text = TextOf(r, lines),
                                              ![id].lines = lines,
                                              ![id].out = r.out,
                                              ![id].called = r.called,
                                              ![id].rpc = reader.pc]
    /\ UNCHANGED guiQueue
    /\ WorkerUnchanged

\* _ocr_and_copy, last statement: self.ocr_finished.emit(text), queued to the
\* GUI thread.
\* A worker that puts its text on the clipboard itself instead of emitting.
ocr_and_copy_set_clipboard(id) ==
    /\ worker[id].pc = "emit"
    /\ worker' = [worker EXCEPT ![id] = [WorkerNone EXCEPT !.pc = "done"]]
    /\ clipboard' = [kind |-> "text", text |-> worker[id].text]
    /\ UNCHANGED <<preflight, platform, pixelRatio, hasEasyocr, reader, nSnips, overlay,
                   snip, cap, emitted, poll, guiQueue, writes, notify>>

ocr_and_copy_emit(id) ==
    /\ worker[id].pc = "emit"
    /\ worker' = [worker EXCEPT ![id] = [WorkerNone EXCEPT !.pc = "done"]]
    /\ guiQueue' = Append(guiQueue, [id |-> id, text |-> worker[id].text])
    /\ WorkerUnchanged

\* --------------------------------------------------------------- TrayApp
\* handle_snip(v) for the snip id: on Windows a None payload starts the
\* native snipping tool and the clipboard poll (launched), unless that
\* fails with an exception; in every other case a worker thread is started.
handle_snip(id, v, launched) ==
    IF v = NoneVal /\ platform = "win32" /\ launched
    THEN /\ poll' = [poll EXCEPT ![id] = TRUE]
         /\ UNCHANGED worker
    ELSE /\ StartWorker(id, v)
         /\ UNCHANGED poll

\* _on_ocr_finished(text), in the GUI thread: the clipboard is set, then the
\* tray message is shown; a failure of either is swallowed.
SetClipboardAfterMessage(text, shown) ==
    IF shown THEN [kind |-> "text", text |-> text] ELSE clipboard
SetClipboard(text, shown) == [kind |-> "text", text |-> text]

_on_ocr_finished ==
    /\ GuiIdle
    /\ guiQueue # <<>>
    /\ \E shown \in BOOLEAN :
         /\ clipboard' = SetClipboard(Head(guiQueue).text, shown)
         /\ notify' = IF shown THEN "shown" ELSE "failed"
    /\ writes' = [writes EXCEPT ![Head(guiQueue).id] = @ + 1]
    /\ guiQueue' = Tail(guiQueue)
    /\ emitted' = NotEmitted
    /\ UNCHANGED <<preflight, platform, pixelRatio, hasEasyocr, reader, nSnips, overlay, snip,
                   cap, poll, worker>>

\* ------------------------------------------------------------ SnipOverlay
OverlayNone == [st |-> "none", id |-> 0, begin |-> FALSE, end |-> FALSE, hidden |-> FALSE]
SnipUnused == [st |-> "unused", w |-> 0, h |-> 0]

\* The tray and its handlers exist once main() has built the reader.
GuiReady == GuiIdle /\ reader.pc # "unbuilt"

\* A GUI callback that emits nothing on snipped and shows no notification.
GuiQuiet == emitted' = NotEmitted /\ notify' = "none"

\* start_snip: a previous overlay is closed (its pending capture timer is
\* not cancelled) and a new full-screen overlay is shown.
start_snip ==
    /\ GuiReady
    /\ nSnips < MaxSnips
    /\ nSnips' = nSnips + 1
    /\ overlay' = [OverlayNone EXCEPT !.st = "shown", !.id = nSnips + 1]
    /\ snip' = [i \in Snips |->
                  IF i = nSnips + 1 THEN [SnipUnused EXCEPT !.st = "selecting"]
                  ELSE IF snip[i].st = "selecting" THEN [snip[i] EXCEPT !.st = "cancelled"]
                  ELSE snip[i]]
    /\ GuiQuiet
    /\ UNCHANGED <<preflight, platform, pixelRatio, hasEasyocr, reader, cap, poll,
                   worker, guiQueue, clipboard, writes>>

mousePressEvent ==
    /\ GuiReady
    /\ overlay.st = "shown"
    /\ overlay' = [overlay EXCEPT !.begin = TRUE]
    /\ GuiQuiet
    /\ UNCHANGED <<preflight, platform, pixelRatio, hasEasyocr, reader, nSnips, snip, cap,
                   poll, worker, guiQueue, clipboard, writes>>

mouseMoveEvent ==
    /\ GuiReady
    /\ overlay.st = "shown"
    /\ overlay.begin
    /\ overlay' = [overlay EXCEPT !.end = TRUE]
    /\ GuiQuiet
    /\ UNCHANGED <<preflight, platform, pixelRatio, hasEasyocr, reader, nSnips, snip, cap,
                   poll, worker, guiQueue, clipboard, writes>>

\* A key handler that treats Escape like the end of a selection and starts
\* a capture of the region under the rubber band.
keyPressEventCapturing ==
    /\ GuiReady
    /\ overlay.st = "shown"
    /\ overlay' = [overlay EXCEPT !.st = "closed"]
    /\ snip' = [snip EXCEPT ![overlay.id] = [st |-> "escaped", w |-> 1, h |-> 1]]
    /\ cap' = [CapIdle EXCEPT !.pc = "qt", !.id = overlay.id, !.w = 1, !.h = 1]
    /\ GuiQuiet
    /\ UNCHANGED <<preflight, platform, pixelRatio, hasEasyocr, reader, nSnips,
                   poll, worker, guiQueue, clipboard, writes>>

\* keyPressEvent with Key_Escape: the rubber band is hidden and the overlay
\* closes; a closed overlay receives no further mouse or key events.
keyPressEvent ==
    /\ GuiReady
    /\ overlay.st = "shown"
    /\ overlay' = [overlay EXCEPT !.st = "closed"]
    /\ snip' = [snip EXCEPT ![overlay.id].st = "escaped"]
    /\ GuiQuiet
    /\ UNCHANGED <<preflight, platform, pixelRatio, hasEasyocr, reader, nSnips, cap,
                   poll, worker, guiQueue, clipboard, writes>>

\* _perform_capture, up to the call of capture.capture_region:
\* _ensure_capture_module reloads the module (recomputing _HAS_MSS); when no
\* capture module can be imported only the Qt fallback is left.
BeginCapture(id, w, h, timer) ==
    \E avail \in BOOLEAN, m \in BOOLEAN :
      /\ cap' = [CapIdle EXCEPT !.pc = IF avail THEN "mss" ELSE "nomodule",
                                !.id = id, !.w = w, !.h = h, !.timer = timer,
                                !.hasMss = avail /\ m]
      /\ snip' = [snip EXCEPT ![id] = [st |-> "capturing", w |-> w, h |-> h]]

\* if scaled_width <= 0 or scaled_height <= 0: the selection is ignored.
ZeroAreaWidthOnly(scaled_width, scaled_height) == scaled_width <= 0
ZeroArea(scaled_width, scaled_height) == scaled_width <= 0 \/ scaled_height <= 0

\* try: QTimer.singleShot(80, _perform_capture) / except: _perform_capture()
\* at the end of grab_region: the capture runs inside grab_region only when
\* setting the timer raised.
RunsNowAlways(timer) == TRUE
RunsNow(timer) == timer = "failed"

\* mouseReleaseEvent: without a selection the overlay just closes; otherwise
\* grab_region(rect) runs and the overlay closes. grab_region hides the
\* overlay, scales the w x h selection by the device pixel ratio, emits
\* snipped(None) for an empty selection, and otherwise schedules
\* _perform_capture on an 80 ms single-shot timer (running it at once if the
\* timer cannot be set).
mouseReleaseEvent ==
    /\ GuiReady
    /\ overlay.st = "shown"
    /\ IF ~overlay.begin \/ ~overlay.end
       THEN /\ overlay' = [overlay EXCEPT !.st = "closed"]
            /\ snip' = [snip EXCEPT ![overlay.id].st = "cancelled"]
            /\ emitted' = NotEmitted
            /\ UNCHANGED <<cap, poll, worker>>
       ELSE \E w \in 0..MaxDim, h \in 0..MaxDim :
            LET id == overlay.id
                scaled_width == w * pixelRatio
                scaled_height == h * pixelRatio
            IN  /\ overlay' = [overlay EXCEPT !.st = "closed", !.hidden = TRUE]
                /\ IF ZeroArea(scaled_width, scaled_height)
                   THEN /\ emitted' = Emission(NoneVal, id, NoneVal, scaled_width, scaled_height)
                        /\ snip' = [snip EXCEPT ![id].st = "done"]
                        /\ \E launched \in BOOLEAN : handle_snip(id, NoneVal, launched)
                        /\ UNCHANGED cap
                   ELSE \E timer \in {"set", "failed"} :
                        IF RunsNow(timer)
                        THEN /\ BeginCapture(id, scaled_width, scaled_height, timer)
                             /\ emitted' = NotEmitted
                             /\ UNCHANGED <<poll, worker>>
                        ELSE /\ snip' = [snip EXCEPT ![id] =
                                           [st |-> "scheduled", w |-> scaled_width,
                                            h |-> scaled_height]]
                             /\ emitted' = NotEmitted
                             /\ UNCHANGED <<cap, poll, worker>>
    /\ notify' = "none"
    /\ UNCHANGED <<preflight, platform, pixelRatio, hasEasyocr, reader, nSnips, guiQueue,
                   clipboard, writes>>

\* The single-shot timer fires: _perform_capture starts.
perform_capture_begin(id) ==
    /\ GuiReady
    /\ snip[id].st = "scheduled"
    /\ BeginCapture(id, snip[id].w, snip[id].h, "set")
    /\ GuiQuiet
    /\ UNCHANGED <<preflight, platform, pixelRatio, hasEasyocr, reader, nSnips, overlay,
                   poll, worker, guiQueue, clipboard, writes>>

\* _perform_capture after capture_region: the Qt fallback when there is no
\* payload yet (fallback: what grabWindow and a checked save() give), the
\* coercion and validation of the payload, the emission on snipped and, in
\* the same call, handle_snip.
perform_capture_finish ==
    /\ cap.pc \in {"returned", "raised", "propagated", "nomodule"}
    /\ \E fallback \in {BytesObj(Png), NoneVal}, launched \in BOOLEAN :
         LET id == cap.id
             got == IF cap.pc = "returned" THEN cap.result ELSE NoneVal
             png == IF got = NoneVal THEN fallback ELSE got
             v == IF png = NoneVal THEN NoneVal ELSE Normalize(png, cap.w, cap.h)
         IN  /\ (got # NoneVal) => fallback = NoneVal
             /\ emitted' = Emission(v, id, png, cap.w, cap.h)
             /\ snip' = [snip EXCEPT ![id] = [SnipUnused EXCEPT !.st = "done"]]
             /\ handle_snip(id, v, launched)
    /\ cap' = CapIdle
    /\ UNCHANGED <<preflight, platform, pixelRatio, hasEasyocr, reader, nSnips, overlay,
                   guiQueue, clipboard, writes, notify>>

\* The user completes a snip in the native Windows tool, which puts the
\* image on the clipboard.
native_snip_tool ==
    /\ platform = "win32"
    /\ \E id \in Snips : poll[id]
    /\ clipboard.kind # "image"
    /\ clipboard' = [kind |-> "image", text |-> <<>>]
    /\ UNCHANGED <<preflight, platform, pixelRatio, hasEasyocr, reader, nSnips, overlay, snip,
                   cap, emitted, poll, worker, guiQueue, writes, notify>>

\* _check_clipboard, the 300 ms poll of handle_snip's Windows fallback, on
\* the ticks that end it: an image on the clipboard is saved as PNG and
\* handed to a worker; after 15 s without one a worker is started with None.
_check_clipboard(id) ==
    /\ GuiReady
    /\ poll[id]
    /\ poll' = [poll EXCEPT ![id] = FALSE]
    /\ IF clipboard.kind = "image"
       THEN StartWorker(id, Bytes(Png))
       ELSE StartWorker(id, NoneVal)
    /\ GuiQuiet
    /\ UNCHANGED <<preflight, platform, pixelRatio, hasEasyocr, reader, nSnips, overlay, snip,
                   cap, guiQueue, clipboard, writes>>

\* ------------------------------------------------------------ specification
AppInit ==
    /\ platform \in Platforms
    /\ pixelRatio \in Ratios
    /\ hasEasyocr \in BOOLEAN
    /\ reader = ReaderUnbuilt
    /\ nSnips = 0
    /\ overlay = OverlayNone
    /\ snip = [i \in Snips |-> SnipUnused]
    /\ cap = CapIdle
    /\ emitted = NotEmitted
    /\ poll = [i \in Snips |-> FALSE]
    /\ worker = [i \in Snips |-> WorkerNone]
    /\ guiQueue = <<>>
    /\ clipboard = [kind |-> "text", text |-> <<"previous">>]
    /\ writes = [i \in Snips |-> 0]
    /\ notify = "none"

\* The tray application is started; the preflight script is not run.
Init == AppInit /\ preflight = PreflightNotRun

Worker == \E id \in Snips :
    \/ ocr_and_copy_convert(id)
    \/ ocr_and_copy_read(id)
    \/ ocr_and_copy_emit(id)

Next ==
    \/ build_reader
    \/ reader_init
    \/ reader_init_done
    \/ start_snip
    \/ mousePressEvent
    \/ mouseMoveEvent
    \/ mouseReleaseEvent
    \/ keyPressEvent
    \/ \E id \in Snips : perform_capture_begin(id)
    \/ capture_region
    \/ perform_capture_finish
    \/ native_snip_tool
    \/ \E id \in Snips : _check_clipboard(id)
    \/ Worker
    \/ _on_ocr_finished

Spec == Init /\ [][Next]_vars

\* The GUI thread runs its callbacks to completion, worker threads and the
\* reader's initialisation thread keep running, and queued ocr_finished
\* emissions are delivered by the event loop.
FairSpec ==
    /\ Spec
    /\ WF_vars(capture_region)
    /\ WF_vars(perform_capture_finish)
    /\ \A id \in Snips : WF_vars(perform_capture_begin(id))
    /\ \A id \in Snips : WF_vars(ocr_and_copy_convert(id))
    /\ \A id \in Snips : WF_vars(ocr_and_copy_read(id))
    /\ \A id \in Snips : WF_vars(ocr_and_copy_emit(id))
    /\ WF_vars(_on_ocr_finished)
    /\ WF_vars(build_reader)
    /\ WF_vars(reader_init)
    /\ WF_vars(reader_init_done)

\* ------------------------------------------------------------------ claims
\* The documented order of the backends, and the ones a call attempts.
BackendOrder == <<"mss", "qt", "macos", "grim", "maim", "import">>
Applicable(b) ==
    /\ (b = "mss") => cap.hasMss
    /\ (b = "macos") => platform = "darwin"
ExpectedAttempts == SelectSeq(BackendOrder, Applicable)
CapOver == cap.pc \in {"returned", "raised", "propagated"}

\* C1: capture_region attempts the backends in the order mss, Qt,
\* screencapture, grim, maim, import; mss only when _HAS_MSS and
\* screencapture only on darwin, the others on every platform; a backend is
\* attempted only after all earlier attempted ones failed, and the value
\* returned is that of the first backend that succeeds.
C1_BackendOrder ==
    (cap.pc \notin {"idle", "nomodule"}) =>
        LET n == Len(cap.attempts)
        IN  /\ n <= Len(ExpectedAttempts)
            /\ \A i \in 1..n : cap.attempts[i].b = ExpectedAttempts[i]
            /\ \A i \in 1..n : (i < n) => ~cap.attempts[i].ok
            /\ (cap.pc = "returned") =>
                  /\ n >= 1
                  /\ cap.attempts[n].ok
                  /\ cap.result = cap.attempts[n].v
            /\ (cap.pc \notin {"returned", "propagated"}) =>
                  \A i \in 1..n : ~cap.attempts[i].ok
            /\ (cap.pc \in {"fail", "raised"}) => n = Len(ExpectedAttempts)

\* C1 witness: on darwin with mss present all six backends were attempted
\* and the last one, import, produced the returned value.
C1_Witness ==
    /\ cap.pc = "returned"
    /\ Len(cap.attempts) = 6
    /\ cap.attempts[6].b = "import"

\* C2: capture_region raises RuntimeError exactly when every attempted
\* backend failed; whatever a backend raises is absorbed, so no other
\* exception reaches the caller, and a normal return is never None.
C2_RuntimeErrorIffAllFailed ==
    /\ cap.pc # "propagated"
    /\ (cap.pc = "raised") =>
          /\ cap.exc = "RuntimeError"
          /\ Len(cap.attempts) = Len(ExpectedAttempts)
          /\ \A i \in 1..Len(cap.attempts) : ~cap.attempts[i].ok
    /\ (CapOver /\ \A i \in 1..Len(cap.attempts) : ~cap.attempts[i].ok) =>
          cap.pc = "raised"
    /\ (cap.pc = "returned") => cap.result # NoneVal

\* C2 witness: the call ended in RuntimeError after absorbing an exception
\* of another class.
C2_Witness ==
    /\ cap.pc = "raised"
    /\ cap.nonRuntime
    /\ Len(cap.attempts) >= 4

\* C3 (as claimed): whenever capture_region returns, the value is PNG image
\* bytes.
C3_ReturnsPng ==
    (cap.pc = "returned") => (cap.result.t = "bytes" /\ cap.result.b = Png)

\* C4: when _on_ocr_finished(t) has run the clipboard text is t, also when
\* the tray notification failed.
C4_ClipboardSet ==
    [][(guiQueue # <<>> /\ guiQueue' = Tail(guiQueue)) =>
         (clipboard'.kind = "text" /\ clipboard'.text = Head(guiQueue).text)]_vars

\* C4 witness: the handler ran, its notification failed, and the clipboard
\* holds a text put there by the handler.
C4_Witness ==
    /\ notify = "failed"
    /\ clipboard.kind = "text"
    /\ clipboard.text = <<Line(1), NL, Line(2)>>

\* Values the capture stage may hand to the rest of _perform_capture, over
\* every type the coercion code distinguishes. For a bytes-like object b is
\* its content; for a QImage or QPixmap the PNG its save() writes; for a
\* PIL image its raw pixels; for the others what data(), tobytes() or
\* bytes() return.
PayloadUniverse(w, h) ==
    LET Contents == {Png, PngAt, Junk(0), Junk(RawRgbLen(w, h)), Junk(RawRgbaLen(w, h))}
        Raw == {Junk(RawRgbLen(w, h)), Junk(RawRgbaLen(w, h))}
    IN  {Payload(t, b, TRUE) : t \in {"bytes", "bytearray", "memoryview"}, b \in Contents}
        \cup {Payload("PIL.Image", b, ok) : b \in Raw, ok \in BOOLEAN}
        \cup {Payload(t, Png, ok) : t \in {"QImage", "QPixmap"}, ok \in BOOLEAN}
        \cup {Payload(t, b, ok) : t \in {"has_data", "has_tobytes", "other"},
                                  b \in Contents, ok \in BOOLEAN}

\* _perform_capture from the point where it holds a payload png, for every
\* payload of PayloadUniverse, and the program's run from there on.
PayloadInit ==
    /\ preflight = PreflightNotRun
    /\ platform \in Platforms
    /\ pixelRatio \in Ratios
    /\ hasEasyocr \in BOOLEAN
    /\ reader = [ReaderUnbuilt EXCEPT !.pc = IF hasEasyocr THEN "start" ELSE "absent"]
    /\ nSnips = 1
    /\ overlay = [OverlayNone EXCEPT !.st = "closed", !.id = 1, !.begin = TRUE,
                                     !.end = TRUE, !.hidden = TRUE]
    /\ \E w \in 1..MaxDim, h \in 1..MaxDim :
         LET s_w == w * pixelRatio
             s_h == h * pixelRatio
         IN  /\ snip = [i \in Snips |->
                          IF i = 1 THEN [st |-> "capturing", w |-> s_w, h |-> s_h]
                          ELSE SnipUnused]
             /\ \E png \in PayloadUniverse(s_w, s_h) :
                  cap = [CapIdle EXCEPT !.pc = "returned", !.id = 1, !.w = s_w,
                                        !.h = s_h, !.result = png]
    /\ emitted = NotEmitted
    /\ poll = [i \in Snips |-> FALSE]
    /\ worker = [i \in Snips |-> WorkerNone]
    /\ guiQueue = <<>>
    /\ clipboard = [kind |-> "text", text |-> <<"previous">>]
    /\ writes = [i \in Snips |-> 0]
    /\ notify = "none"

PayloadNext ==
    \/ perform_capture_finish
    \/ reader_init
    \/ reader_init_done
    \/ native_snip_tool
    \/ \E id \in Snips : _check_clipboard(id)
    \/ Worker
    \/ _on_ocr_finished

PayloadSpec == PayloadInit /\ [][PayloadNext]_vars

\* The recognised lines joined by newlines, in order: line i at position
\* 2i-1 and a newline between two lines.
JoinedInOrder(text, lines) ==
    /\ Len(text) = (IF lines = <<>> THEN 0 ELSE 2 * Len(lines) - 1)
    /\ \A i \in 1..Len(lines) : text[2 * i - 1] = lines[i]
    /\ \A i \in 1..Len(text) : (i % 2 = 0) => text[i] = NL

BytesLike(p) == p.t \in {"bytes", "bytearray", "memoryview"}
Uncoercible(p) == ~BytesLike(p) /\ p.t # "PIL.Image" /\ ~p.ok
YieldsContent(p) == BytesLike(p) \/ (p.t \in {"has_data", "has_tobytes", "other"} /\ p.ok)

\* C6: _perform_capture emits a non-None value on snipped only for a payload
\* that was coerced to bytes which then passed the decode validation; a
\* payload that cannot be coerced, or whose bytes do not decode, gives
\* snipped(None).
C6_EmitOnlyValidated ==
    (emitted.v # Nothing /\ emitted.png # NoneVal) =>
        /\ (emitted.v # NoneVal) =>
              /\ emitted.v.b.k = "png"
              /\ ~Uncoercible(emitted.png)
              /\ YieldsContent(emitted.png) => emitted.v.b = emitted.png.b
        /\ Uncoercible(emitted.png) => emitted.v = NoneVal
        /\ (YieldsContent(emitted.png) /\ emitted.png.b.k # "png") => emitted.v = NoneVal
        /\ (emitted.png.t = "PIL.Image" /\ ~emitted.png.ok) => emitted.v = NoneVal

\* C6 witness: a payload whose bytes() raised was reported as snipped(None).
C6_Witness ==
    /\ emitted.v = NoneVal
    /\ emitted.png # NoneVal
    /\ emitted.png.t = "other"
    /\ ~emitted.png.ok

\* A raw pixel buffer for a w x h capture: bytes that are no image file, of
\* length w*h*3 or w*h*4.
RawPixels(p, w, h) ==
    /\ p # NoneVal
    /\ p.t = "bytes"
    /\ p.b.k = "junk"
    /\ p.b.n \in {RawRgbLen(w, h), RawRgbaLen(w, h)}

\* C7 (as claimed): a raw pixel buffer captured during an overlay snip is
\* passed on as a payload that _ocr_and_copy turns into an image, and is not
\* reported as a capture failure.
C7_RawPixelsReachOcr ==
    (emitted.v # Nothing /\ RawPixels(emitted.png, emitted.w, emitted.h)) =>
        /\ emitted.v # NoneVal
        /\ worker[emitted.id].pc = "convert"
        /\ Converts(worker[emitted.id].payload)

C9_NotReadyBeforeInit ==
    /\ [](\A id \in Snips :
            /\ (worker[id].pc = "emit" /\ worker[id].rpc \in {"start", "built"}) =>
                  (worker[id].out = "ocr_not_ready" /\ ~worker[id].called)
            /\ (worker[id].pc = "ocr" /\ reader.pc # "unbuilt") =>
                  ENABLED ocr_and_copy_read(id))
    /\ [][(reader.pc = "unbuilt" /\ reader'.pc # "unbuilt") =>
            (reader'.pc \in {"start", "absent"} /\ ~reader'.event /\ ~reader'.real)]_vars

\* C9 witness: a call made when easyocr.Reader had already been built, but
\* the event was not yet set, was answered with ocr_not_ready.
C9_Witness ==
    \E id \in Snips :
        /\ worker[id].pc = "emit"
        /\ worker[id].rpc = "built"
        /\ worker[id].out = "ocr_not_ready"
        /\ reader.real

\* C10 (as claimed): when readtext raised ocr_not_ready nothing is copied:
\* handling that snip's emission leaves the clipboard as it was.
C10_NothingCopiedWhenNotReady ==
    [][(/\ guiQueue # <<>>
        /\ guiQueue' = Tail(guiQueue)
        /\ Head(guiQueue).text = MsgInitializing) => clipboard' = clipboard]_vars

\* C11: pressing Escape on the overlay cancels the snip. The Escape step
\* closes the overlay, invokes no capture backend, emits nothing on snipped,
\* starts no worker and leaves the clipboard alone; and from then on the
\* snip stays cancelled: no capture, no clipboard poll, no worker and no
\* clipboard write ever belongs to it, whatever mouse events came before.
C11_EscapeCancels ==
    /\ [](\A id \in Snips :
            snip[id].st = "escaped" =>
              /\ worker[id].pc = "none"
              /\ writes[id] = 0
              /\ ~poll[id]
              /\ cap.id # id
              /\ emitted.id # id
              /\ (overlay.id = id) => overlay.st = "closed"
              /\ \A i \in 1..Len(guiQueue) : guiQueue[i].id # id)
    /\ [][\A id \in Snips :
            /\ (snip[id].st # "escaped" /\ snip'[id].st = "escaped") =>
                  /\ overlay'.st = "closed"
                  /\ emitted' = NotEmitted
                  /\ UNCHANGED <<cap, worker, poll, guiQueue, clipboard, writes>>
            /\ (snip[id].st = "escaped") => snip'[id].st = "escaped"]_vars

\* C11 witness: Escape was pressed after a press and a drag on the overlay,
\* and the overlay is closed with nothing captured.
C11_Witness ==
    \E id \in Snips :
      /\ snip[id].st = "escaped"
      /\ overlay.id = id /\ overlay.begin /\ overlay.end
      /\ overlay.st = "closed" /\ ~overlay.hidden
      /\ clipboard.text = <<"previous">>

\* A run of scripts/preflight.py on a machine where the tray application
\* has not started.
PreflightInit == AppInit /\ preflight = [PreflightNotRun EXCEPT !.pc = "start"]
PreflightNext == preflight_main
PreflightSpec == PreflightInit /\ [][PreflightNext]_vars

\* C12: the preflight script exits with code 0 exactly when PySide6 is
\* importable and at least one of mss, grim, maim, screencapture, import is
\* available, and with code 2 in every other combination of the nine checks.
C12_PreflightExitCode ==
    preflight.pc = "exited" =>
      LET c == preflight.checks
          usable == c["pyside6"] /\
                    \E b \in {"mss", "grim", "maim", "screencapture", "import"} : c[b]
      IN  /\ preflight.code \in {0, 2}
          /\ (preflight.code = 0) <=> usable

\* C12 witness: the script exited 2 although a capture backend and every
\* module but PySide6 were available.
C12_Witness ==
    /\ preflight.pc = "exited"
    /\ preflight.code = 2
    /\ ~preflight.checks["pyside6"]
    /\ \A n \in CheckNames \ {"pyside6"} : preflight.checks[n]

\* C13: in every run of grab_region that reaches a capture, hide() has been
\* called on the overlay before a capture backend is invoked; the capture is
\* started by the single-shot timer in a later callback, after grab_region
\* (the mouse release handler) has returned, and starts inside grab_region
\* only when the timer could not be set.
C13_HideThenTimedCapture ==
    /\ [](\A id \in Snips :
            (snip[id].st \in {"scheduled", "capturing"} /\ overlay.id = id) =>
               overlay.hidden /\ overlay.st = "closed")
    /\ [](cap.pc # "idle" =>
            /\ snip[cap.id].st = "capturing"
            /\ (cap.attempts = <<>>) => cap.timer \in {"set", "failed"}
            /\ (cap.attempts = <<>>) => cap.pc \in {"mss", "qt", "nomodule"})
    /\ [][(cap.pc = "idle" /\ cap'.pc # "idle") =>
            LET id == cap'.id
                inGrabRegion == overlay.st = "shown" /\ overlay'.st = "closed"
            IN  /\ cap'.attempts = <<>>
                /\ inGrabRegion => (cap'.timer = "failed" /\ overlay'.hidden)
                /\ (cap'.timer = "set") =>
                      /\ snip[id].st = "scheduled"
                      /\ ~inGrabRegion
                      /\ overlay' = overlay
                /\ (cap'.timer = "failed") => inGrabRegion]_vars

\* C13 witness: a capture started by the timer has found mss missing and is
\* about to invoke the Qt backend, its first, while the overlay that
\* scheduled it is hidden and closed.
C13_Witness ==
    /\ cap.pc = "qt"
    /\ cap.timer = "set"
    /\ cap.attempts = <<>>
    /\ overlay.id = cap.id
    /\ overlay.hidden

\* C14: when the selection has zero or negative width or height after the
\* device-pixel-ratio scaling, grab_region emits snipped(None), schedules no
\* capture and invokes no capture backend; a capture is only ever scheduled
\* or run for a selection of at least 1 x 1, and a snip ended this way never
\* reaches a capture later.
C14_ZeroAreaEmitsNone ==
    /\ [](\A id \in Snips :
            snip[id].st \in {"scheduled", "capturing"} =>
               snip[id].w >= 1 /\ snip[id].h >= 1)
    /\ [](cap.pc # "idle" => cap.w >= 1 /\ cap.h >= 1)
    /\ []((emitted.v = NoneVal /\ (emitted.w <= 0 \/ emitted.h <= 0)) =>
            /\ cap.pc = "idle"
            /\ snip[emitted.id].st = "done")
    /\ [][/\ (overlay.st = "shown" /\ overlay'.hidden) =>
               LET id == overlay.id
               IN  \/ /\ emitted'.v = NoneVal
                      /\ emitted'.id = id
                      /\ emitted'.w <= 0 \/ emitted'.h <= 0
                      /\ cap' = cap
                      /\ snip'[id].st = "done"
                   \/ /\ emitted' = NotEmitted
                      /\ snip'[id].st \in {"scheduled", "capturing"}
                      /\ snip'[id].w >= 1 /\ snip'[id].h >= 1
          /\ \A id \in Snips : snip[id].st = "done" => snip'[id].st = "done"]_vars

\* C14 witness: grab_region has just emitted snipped(None) for a selection
\* of positive width and zero height; no capture is in progress or pending.
C14_Witness ==
    /\ emitted.v = NoneVal
    /\ emitted.w >= 1 /\ emitted.h = 0
    /\ overlay.hidden
    /\ cap.pc = "idle"
    /\ snip[emitted.id].st = "done"

\* The byte strings of a 3-tuple handed to _ocr_and_copy, for the scaled
\* size w x h: image files, whole or cut short, bytes with an embedded PNG,
\* and other bytes, of the raw RGB length, the raw RGBA length or neither.
TupleBytes(w, h) ==
    LET Lens == {0, RawRgbLen(w, h), RawRgbaLen(w, h)}
    IN  {Png, PngAt} \cup {Junk(n) : n \in Lens} \cup {Truncated(n) : n \in Lens}
          \cup {PngAtBad(n) : n \in Lens}

\* _ocr_and_copy started on a 3-tuple (bytes, w, h) of any content, and the
\* program's run from there on.
DecodeInit ==
    /\ preflight = PreflightNotRun
    /\ platform \in Platforms
    /\ pixelRatio \in Ratios
    /\ hasEasyocr \in BOOLEAN
    /\ reader = [ReaderUnbuilt EXCEPT !.pc = IF hasEasyocr THEN "start" ELSE "absent"]
    /\ nSnips = 1
    /\ overlay = [OverlayNone EXCEPT !.st = "closed", !.id = 1, !.begin = TRUE,
                                     !.end = TRUE, !.hidden = TRUE]
    /\ snip = [i \in Snips |-> IF i = 1 THEN [SnipUnused EXCEPT !.st = "done"]
                                ELSE SnipUnused]
    /\ cap = CapIdle
    /\ emitted = NotEmitted
    /\ poll = [i \in Snips |-> FALSE]
    /\ \E w \in 1..MaxDim, h \in 1..MaxDim :
         \E b \in TupleBytes(w * pixelRatio, h * pixelRatio) :
           worker = [i \in Snips |->
                       IF i = 1
                       THEN [WorkerNone EXCEPT !.pc = "convert",
                               !.payload = Tuple(b, w * pixelRatio, h * pixelRatio)]
                       ELSE WorkerNone]
    /\ guiQueue = <<>>
    /\ clipboard = [kind |-> "text", text |-> <<"previous">>]
    /\ writes = [i \in Snips |-> 0]
    /\ notify = "none"

DecodeNext ==
    \/ reader_init
    \/ reader_init_done
    \/ Worker
    \/ _on_ocr_finished

DecodeSpec == DecodeInit /\ [][DecodeNext]_vars

\* The documented order of the decoders, the place of a decoder in it, and
\* whether a decoder yields an image from bytes b for the size w x h.
DecoderOrder == <<"memory", "tempfile", "signature", "rgb", "rgba">>
DecoderPos(d) == CHOOSE i \in 1..Len(DecoderOrder) : DecoderOrder[i] = d
Produces(d, b, w, h) ==
    CASE d \in {"memory", "tempfile"} -> b.k = "png"
      [] d = "signature" -> b.k = "pngAt"
      [] d = "rgb" -> b.k \notin {"png", "pngAt"} /\ b.n = w * h * 3
      [] d = "rgba" -> b.k \notin {"png", "pngAt"} /\ b.n = w * h * 4

\* C15: for a 3-tuple (bytes, w, h), _ocr_and_copy tries the decoders in the
\* order in-memory, temp file, embedded PNG signature at an offset > 0, raw
\* RGB (len = w*h*3), raw RGBA (len = w*h*4): the in-memory decode comes
\* first, a later decoder is tried only when every decoder tried before it
\* produced no image, the thread goes on to OCR only with an image from the
\* decoder tried last, and when no decoder produces an image the thread
\* emits "(snip conversion error)" and ends without running OCR.
C15_DecoderOrder ==
    [][\A id \in Snips :
        (worker[id].pc = "convert" /\ worker'[id].pc # "convert"
           /\ worker[id].payload.k = "tuple") =>
          LET p == worker[id].payload
              t == worker'[id].tried
              Yields(d) == Produces(d, p.b, p.w, p.h)
          IN  /\ t # <<>> /\ t[1] = "memory"
              /\ \A i \in 1..Len(t) : \E j \in 1..Len(DecoderOrder) : t[i] = DecoderOrder[j]
              /\ \A i, j \in 1..Len(t) :
                    i < j => /\ DecoderPos(t[i]) < DecoderPos(t[j])
                             /\ ~Yields(t[i])
              /\ ~Yields("memory") => (Len(t) >= 2 /\ t[2] = "tempfile")
              /\ worker'[id].pc \in {"ocr", "done"}
              /\ (worker'[id].pc = "ocr") =>
                    /\ Yields(t[Len(t)])
                    /\ guiQueue' = guiQueue
              /\ (worker'[id].pc = "done") =>
                    /\ guiQueue' = Append(guiQueue, [id |-> id, text |-> MsgConversionError])
                    /\ ~worker'[id].called
              /\ (\A i \in 1..Len(DecoderOrder) : ~Yields(DecoderOrder[i])) =>
                    worker'[id].pc = "done"]_vars

\* C15 witness: a worker given bytes that are no image file, hold no PNG
\* signature and have the raw RGBA length went through the in-memory and
\* temp-file decoders to the raw RGBA one and is now ready for OCR.
C15_Witness ==
    \E id \in Snips :
      /\ worker[id].pc = "ocr"
      /\ worker[id].tried = <<"memory", "tempfile", "rgba">>

\* A step of the _ocr_and_copy thread of snip id, and what it leaves alone:
\* the clipboard and every object of the GUI thread.
WorkerStep(id) == worker'[id] # worker[id] /\ worker[id].pc \in {"convert", "ocr", "emit"}
WorkerTouchesNoQtObject(id) ==
    /\ UNCHANGED <<clipboard, overlay, snip, cap, emitted, poll, notify, writes>>
    /\ \/ guiQueue' = guiQueue
       \/ /\ Len(guiQueue') = Len(guiQueue) + 1
          /\ SubSeq(guiQueue', 1, Len(guiQueue)) = guiQueue
          /\ guiQueue'[Len(guiQueue')].id = id
HandlesEmission ==
    /\ guiQueue # <<>>
    /\ guiQueue' = Tail(guiQueue)
    /\ cap.pc = "idle"
    /\ worker' = worker
    /\ clipboard' = [kind |-> "text", text |-> Head(guiQueue).text]

====
